---- MODULE Spec2Model ----
(***************************************************************************)
(* Koopa IR core: the def-use protocol between values and users            *)
(* (src/ir/core.rs), the aggregate constructor (src/ir/values.rs) and the  *)
(* instruction container of a basic block (src/ir/structs.rs).             *)
(*                                                                         *)
(* Nodes, uses and blocks are identified by positive integers; 0 is the    *)
(* Option::None of a back-pointer.  Use lists, operand lists and           *)
(* instruction lists are sequences of identifiers, front first.            *)
(***************************************************************************)
EXTENDS Integers, Sequences, FiniteSets, TLC

\* Nodes a basic block may be handed (identifiers 1..NumNodes).
NumNodes == 4
\* Nodes the def-use operations work on (identifiers 1..NumUseNodes).
NumUseNodes == 3
\* Basic blocks (identifiers 1..NumBlocks).
NumBlocks == 2
\* Uses that may ever be created (identifiers are never handed out twice).
MaxUses == 3
\* Aggregates that may be constructed (identifiers follow the nodes').
MaxAggs == 1
\* Longest element list handed to Aggregate::new.
MaxElems == 2
\* Phi instructions (identifiers follow the aggregates').
NumPhis == 1
\* Integers handed to Integer::new (0..MaxInt, as i32).
MaxInt == 2
\* Nodes the constructors of values.rs may build.
MaxPooled == 3
\* Values in the shared global table (handles 1..NumGlobals).
NumGlobals == 2
\* Handles next_value_id() may hand out to the values of one function.
MaxValues == 2
\* Handles next_bb_id() may hand out.
MaxBbs == 2
\* Functions (identifiers 1..NumFuncs).
NumFuncs == 2
\* Basic blocks handed to the functions (identifiers 1..NumFnBlocks).
NumFnBlocks == 3

None == 0

Nodes == 1..NumNodes
UseNodes == 1..NumUseNodes
AggIds == (NumNodes + 1)..(NumNodes + MaxAggs)
PhiIds == (NumNodes + MaxAggs + 1)..(NumNodes + MaxAggs + NumPhis)
AllNodes == Nodes \cup AggIds \cup PhiIds
Insts == Nodes \cup PhiIds
Blocks == 1..NumBlocks
UseIds == 1..MaxUses
Funcs == 1..NumFuncs
FnBlocks == 1..NumFnBlocks

VARIABLES
  nodes,     \* the nodes constructed so far
  alive,     \* the Uses that exist (created and not yet dropped)
  useValue,  \* Use.value of every live Use
  useUser,   \* Use.user of every live Use
  uses,      \* ValueData.uses of every node: its use list
  operands,  \* User.operands of every node: the Uses it owns, in slot order
  nextUse,   \* the identifier the next created Use gets
  bb,        \* the back-pointer of every node to its basic block, or None
  insts,     \* BasicBlockInner.insts of every block
  status,    \* "running", "panicked" once an assertion has failed, "hung",
             \* or "done" once the block under construction was dropped
  last,      \* the operation that returned (or panicked) last, with its arguments
  pool,      \* the POOLs of Integer, ZeroInit and Undef: content -> node
  returned,  \* what Integer::new has returned so far: <<value, node>> pairs
  dfg,       \* the DataFlowGraph: its globals, values and bbs tables
  nextId,    \* the handles next_value_id() and next_bb_id() hand out next,
             \* and the identity the next node built by values.rs gets
  funcs,     \* FunctionInner.bbs of every function
  built,     \* the nodes values.rs has built so far, each with its kind,
             \* its content and its type
  preds      \* BasicBlockInner.preds of every block

useVars == <<nodes, alive, useValue, useUser, uses, operands, nextUse>>
bbVars == <<bb, insts>>
extVars == <<pool, returned, dfg, nextId, funcs, built, preds>>
vars == <<nodes, alive, useValue, useUser, uses, operands, nextUse,
          bb, insts, status, last, pool, returned, dfg, nextId, funcs,
          built, preds>>

-----------------------------------------------------------------------------
(* The value kinds.  Constructed nodes take their kind from their          *)
(* identifier: the aggregates and the phis have identifier ranges of their *)
(* own.                                                                    *)

KindOf(n) ==
  IF n > NumNodes + MaxAggs THEN "Phi"
  ELSE IF n > NumNodes THEN "Aggregate"
  ELSE CASE n % 4 = 1 -> "Branch"
         [] n % 4 = 2 -> "Integer"
         [] n % 4 = 3 -> "Binary"
         [] OTHER -> "Jump"

is_inst(n) == KindOf(n) \in {"Branch", "Jump", "Binary", "Phi"}

is_user(n) == KindOf(n) \in {"Branch", "Binary", "Aggregate", "Phi"}

Users == {n \in Nodes : is_user(n)}

\* Branch.true_bb, Branch.false_bb and Jump.target of the constructed nodes.
true_bb(n) == (((n - 1) \div 4) % NumBlocks) + 1
false_bb(n) == (((n - 1) \div 4 + 1) % NumBlocks) + 1
target(n) == (((n - 1) \div 4 + 1) % NumBlocks) + 1
targets(n) == <<true_bb(n), false_bb(n)>>

-----------------------------------------------------------------------------
(* Sequence helpers.                                                       *)

Range(s) == {s[i] : i \in 1..Len(s)}

Count(s, x) == Cardinality({i \in 1..Len(s) : s[i] = x})

IndexOf(s, x) == CHOOSE i \in 1..Len(s) : s[i] = x

Without(s, x) == SelectSeq(s, LAMBDA y : y # x)

InsertAt(s, i, x) == SubSeq(s, 1, i - 1) \o <<x>> \o SubSeq(s, i, Len(s))

-----------------------------------------------------------------------------
(* core.rs: the use list of a value.                                       *)

add_use_front(ul, u) == <<u>> \o ul

\* ValueData::add_use: push_back on the use list.
add_use(ul, u) == Append(ul, u)

remove_use_front(ul, u) == IF ul = <<>> THEN ul ELSE Tail(ul)

\* ValueData::remove_use: unlinks u through its own link; the other entries
\* keep their order.  (Undefined if u is not in the list: C2_UseListed below
\* shows the callers never get there.)
remove_use(ul, u) == Without(ul, u)

\* Uses owned by the caller: created and not stored in an operand list.  The
\* caller stores or drops the Use it holds before it asks for another.
Held == {u \in alive : \A n \in AllNodes : u \notin Range(operands[n])}

use_new_unlisted(value, u) == uses

\* Use::new and Use::clone, the registration: value.add_use(downgrade(&u)).
use_new_uses(value, u) == [uses EXCEPT ![value] = add_use(@, u)]

drop_unlisted(u) == uses

\* Drop for Use: self.value.remove_use(self).
drop(u) == [uses EXCEPT ![useValue[u]] = remove_use(@, u)]

\* The def-use state the rewiring operations read and write.
UseState == [uses |-> uses, useValue |-> useValue]

set_value_front(st, u, value) ==
  LET detached == [st.uses EXCEPT ![st.useValue[u]] = remove_use(@, u)]
  IN [uses |-> [detached EXCEPT ![value] = add_use_front(@, u)],
      useValue |-> [st.useValue EXCEPT ![u] = value]]

\* Use::set_value(&mut self, value): remove_use on the old value, the value
\* field is overwritten, add_use on the new value.
set_value(st, u, value) ==
  LET detached == [st.uses EXCEPT ![st.useValue[u]] = remove_use(@, u)]
  IN [uses |-> [detached EXCEPT ![value] = add_use(@, u)],
      useValue |-> [st.useValue EXCEPT ![u] = value]]

replace_all_uses_with_once(st, self, value, seen) ==
  IF st.uses[self] = <<>> THEN [returns |-> TRUE, st |-> st]
  ELSE [returns |-> TRUE, st |-> set_value(st, Head(st.uses[self]), value)]

RECURSIVE replace_all_uses_with(_, _, _, _)
\* ValueData::replace_all_uses_with(&mut self, value): while the use list
\* has a front, set_value(value) on it.  The loop is deterministic, so it
\* runs forever exactly when it comes back to a state it has been in (seen).
replace_all_uses_with(st, self, value, seen) ==
  IF st.uses[self] = <<>> THEN [returns |-> TRUE, st |-> st]
  ELSE IF st \in seen THEN [returns |-> FALSE, st |-> st]
  ELSE replace_all_uses_with(set_value(st, Head(st.uses[self]), value),
                             self, value, seen \cup {st})

\* Use::new(value, user): the new Use is registered on value's use list and
\* returned to the caller.
UseNew(value, user) ==
  /\ status = "running"
  /\ nextUse <= MaxUses
  /\ Held = {}
  /\ value \in nodes /\ user \in nodes
  /\ is_user(user)
  /\ alive' = alive \cup {nextUse}
  /\ useValue' = useValue @@ (nextUse :> value)
  /\ useUser' = useUser @@ (nextUse :> user)
  /\ uses' = use_new_uses(value, nextUse)
  /\ nextUse' = nextUse + 1
  /\ last' = [op |-> "Use::new", u |-> nextUse, value |-> value, user |-> user]
  /\ UNCHANGED <<nodes, operands, bb, insts, status>>
  /\ UNCHANGED extVars

\* Use::clone(&self): a second Use with the same value and user.
UseClone(self) ==
  /\ status = "running"
  /\ nextUse <= MaxUses
  /\ Held = {}
  /\ self \in alive
  /\ alive' = alive \cup {nextUse}
  /\ useValue' = useValue @@ (nextUse :> useValue[self])
  /\ useUser' = useUser @@ (nextUse :> useUser[self])
  /\ uses' = use_new_uses(useValue[self], nextUse)
  /\ nextUse' = nextUse + 1
  /\ last' = [op |-> "Use::clone", u |-> nextUse]
  /\ UNCHANGED <<nodes, operands, bb, insts, status>>
  /\ UNCHANGED extVars

\* The caller stores a Use it holds in the operand list of the Use's user,
\* as the collect() of Aggregate::new does.
StoreOperand(u) ==
  /\ status = "running"
  /\ u \in Held
  /\ operands' = [operands EXCEPT ![useUser[u]] = Append(@, u)]
  /\ last' = [op |-> "store", u |-> u]
  /\ UNCHANGED <<nodes, alive, useValue, useUser, uses, nextUse,
                 bb, insts, status>>
  /\ UNCHANGED extVars

\* Use::set_value(&mut self, value).
SetValue(u, value) ==
  /\ status = "running"
  /\ u \in alive /\ value \in nodes
  /\ uses' = set_value(UseState, u, value).uses
  /\ useValue' = set_value(UseState, u, value).useValue
  /\ last' = [op |-> "set_value", u |-> u, value |-> value]
  /\ UNCHANGED <<nodes, alive, useUser, operands, nextUse,
                 bb, insts, status>>
  /\ UNCHANGED extVars

\* impl Drop for Use: the owner (the caller, or the user dropping one of its
\* operands) lets go of the Use, and drop() takes it off its value's list.
DropUse(u) ==
  /\ status = "running"
  /\ u \in alive
  /\ uses' = drop(u)
  /\ operands' = [n \in AllNodes |-> Without(operands[n], u)]
  /\ alive' = alive \ {u}
  /\ useValue' = [x \in alive \ {u} |-> useValue[x]]
  /\ useUser' = [x \in alive \ {u} |-> useUser[x]]
  /\ last' = [op |-> "drop", u |-> u, value |-> useValue[u]]
  /\ UNCHANGED <<nodes, nextUse, bb, insts, status>>
  /\ UNCHANGED extVars

\* The type of a constructed node: Branch and Jump produce no value.
ty(n) == IF KindOf(n) \in {"Branch", "Jump"} THEN "unit" ELSE "i32"

\* The element lists Aggregate::new accepts here: non-empty, every element a
\* constructed node of the same non-unit type.
ElemLists ==
  UNION {[1..k -> {n \in UseNodes : ty(n) = "i32"}] : k \in 1..MaxElems}

RECURSIVE add_uses(_, _, _, _)
\* The use lists after elems[i..] got their Uses first + i - 1, ...
add_uses(ul, elems, first, i) ==
  IF i > Len(elems) THEN ul
  ELSE add_uses([ul EXCEPT ![elems[i]] = add_use(@, first + i - 1)],
                elems, first, i + 1)

\* Aggregate::new(elems): a fresh user whose operands are one new Use per
\* element, created front to back and collected in that order.
AggregateNew(elems) ==
  LET user == NumNodes + Cardinality(nodes \cap AggIds) + 1
      k == Len(elems)
      new == nextUse..(nextUse + k - 1)
  IN /\ status = "running"
     /\ user \in AggIds
     /\ nextUse + k - 1 <= MaxUses
     /\ nodes' = nodes \cup {user}
     /\ alive' = alive \cup new
     /\ useValue' = useValue @@ [u \in new |-> elems[u - nextUse + 1]]
     /\ useUser' = useUser @@ [u \in new |-> user]
     /\ uses' = add_uses(uses, elems, nextUse, 1)
     /\ operands' = [operands EXCEPT ![user] = [i \in 1..k |-> nextUse + i - 1]]
     /\ nextUse' = nextUse + k
     /\ last' = [op |-> "Aggregate::new", u |-> user, elems |-> elems]
     /\ UNCHANGED <<bb, insts, status>>
     /\ UNCHANGED extVars

\* Value::replace_all_uses_with(&mut self, value), called from outside.  A
\* call whose loop never ends leaves the (single-threaded) program hung.
ReplaceAllUsesWith(self, value) ==
  LET r == replace_all_uses_with(UseState, self, value, {})
  IN /\ status = "running"
     /\ self \in nodes /\ value \in nodes
     /\ uses' = r.st.uses
     /\ useValue' = r.st.useValue
     /\ status' = IF r.returns THEN "running" ELSE "hung"
     /\ last' = [op |-> "replace_all_uses_with", self |-> self,
                 value |-> value, n |-> Len(uses[self])]
     /\ UNCHANGED <<nodes, alive, useUser, operands, nextUse, bb, insts>>
     /\ UNCHANGED extVars

\* dfg.rs: the data of a value in the handle representation.  value_uses and
\* bb_uses are the operands ValueKind::value_uses() and bb_uses() iterate.
Data(kind, type, value, op, value_uses, bb_uses) ==
  [kind |-> kind, ty |-> type, value |-> value, op |-> op,
   value_uses |-> value_uses, bb_uses |-> bb_uses, used_by |-> {}]

IntegerData(value) == Data("Integer", "i32", value, "", <<>>, <<>>)
BinaryData(op, type, lhs, rhs) == Data("Binary", type, 0, op, <<lhs, rhs>>, <<>>)
JumpData(to) == Data("Jump", "unit", 0, "", <<>>, <<to>>)
CallData(callee, type, args) == Data("Call", type, callee, "", args, <<>>)

\* The global values: each an integer constant 0 of its own.
GlobalsInit == [g \in 1..NumGlobals |-> IntegerData(0)]

\* The pools are empty, the data flow graph holds the global values only,
\* and no function has a block.
InitExt ==
  /\ pool = [Integer |-> <<>>, ZeroInit |-> <<>>, Undef |-> <<>>]
  /\ returned = {}
  /\ dfg = [globals |-> GlobalsInit, values |-> <<>>, bbs |-> <<>>]
  /\ nextId = [value |-> NumGlobals + 1, bb |-> 1, node |-> 1]
  /\ funcs = [f \in Funcs |-> <<>>]
  /\ built = {}
  /\ preds = [b \in Blocks |-> <<>>]

InitUse ==
  /\ nodes = UseNodes
  /\ alive = {}
  /\ useValue = <<>>
  /\ useUser = <<>>
  /\ uses = [n \in AllNodes |-> <<>>]
  /\ operands = [n \in AllNodes |-> <<>>]
  /\ nextUse = 1
  /\ bb = [n \in Nodes |-> None]
  /\ insts = [b \in Blocks |-> <<>>]
  /\ status = "running"
  /\ last = [op |-> "init"]
  /\ InitExt

NextUse ==
  \/ \E value \in UseNodes, user \in UseNodes : UseNew(value, user)
  \/ \E u \in UseIds : UseClone(u)
  \/ \E u \in UseIds : StoreOperand(u)
  \/ \E u \in UseIds, value \in UseNodes : SetValue(u, value)
  \/ \E u \in UseIds : DropUse(u)
  \/ \E elems \in ElemLists : AggregateNew(elems)
  \/ \E self \in UseNodes, value \in UseNodes : ReplaceAllUsesWith(self, value)

\* The def-use protocol on its own.
SpecUse == InitUse /\ [][NextUse]_vars
-----------------------------------------------------------------------------
(* structs.rs: the instruction list of a basic block.  Every operation is  *)
(* computed as an outcome: whether it returned (ok) or panicked, and the   *)
(* back-pointers and instruction lists it leaves behind either way.        *)

BBState == [bb |-> bb, insts |-> insts]

Outcome(ok, newBb, newInsts) == [ok |-> ok, bb |-> newBb, insts |-> newInsts]

\* The back-pointer of inst names block b: bb().map_or(false, ptr_eq).
in_block(st, b, inst) == inst \in DOMAIN st.bb /\ st.bb[inst] = b

add_inst_unchecked(st, b, inst) ==
  IF ~is_inst(inst) THEN Outcome(FALSE, st.bb, st.insts)
  ELSE Outcome(TRUE, [st.bb EXCEPT ![inst] = b],
               [st.insts EXCEPT ![b] = Append(@, inst)])

add_inst_front(st, b, inst) ==
  IF ~is_inst(inst) THEN Outcome(FALSE, st.bb, st.insts)
  ELSE IF st.bb[inst] # None THEN Outcome(FALSE, st.bb, st.insts)
  ELSE Outcome(TRUE, [st.bb EXCEPT ![inst] = b],
               [st.insts EXCEPT ![b] = <<inst>> \o @])

\* BasicBlockInner::add_inst(&mut self, inst).
add_inst(st, b, inst) ==
  IF ~is_inst(inst) THEN Outcome(FALSE, st.bb, st.insts)
  ELSE IF st.bb[inst] # None THEN Outcome(FALSE, st.bb, st.insts)
  ELSE Outcome(TRUE, [st.bb EXCEPT ![inst] = b],
               [st.insts EXCEPT ![b] = Append(@, inst)])

remove_inst_keep_bb(st, b, inst) ==
  IF ~in_block(st, b, inst) THEN Outcome(FALSE, st.bb, st.insts)
  ELSE Outcome(TRUE, st.bb, [st.insts EXCEPT ![b] = Without(@, inst)])

\* BasicBlockInner::remove_inst(&mut self, inst).
remove_inst(st, b, inst) ==
  IF ~in_block(st, b, inst) THEN Outcome(FALSE, st.bb, st.insts)
  ELSE Outcome(TRUE, [st.bb EXCEPT ![inst] = None],
               [st.insts EXCEPT ![b] = Without(@, inst)])

\* CursorMut::replace_with: new takes the place of inst in the list.
replace_with(l, inst, new) == [i \in 1..Len(l) |-> IF l[i] = inst THEN new ELSE l[i]]

replace_inst_append(st, b, inst, new) ==
  IF ~in_block(st, b, inst) THEN Outcome(FALSE, st.bb, st.insts)
  ELSE LET cleared == [st.bb EXCEPT ![inst] = None]
       IN IF new = inst \/ ~is_inst(new) \/ cleared[new] # None
          THEN Outcome(FALSE, cleared, st.insts)
          ELSE Outcome(TRUE, [cleared EXCEPT ![new] = b],
                       [st.insts EXCEPT ![b] = Append(Without(@, inst), new)])

\* BasicBlockInner::replace_inst(&mut self, inst, new): the back-pointer of
\* inst is cleared before new is looked at, so a call that panics on new
\* (new is inst itself and its cell is already borrowed, new is no
\* instruction, new is in a block) has cleared it all the same.
replace_inst(st, b, inst, new) ==
  IF ~in_block(st, b, inst) THEN Outcome(FALSE, st.bb, st.insts)
  ELSE LET cleared == [st.bb EXCEPT ![inst] = None]
       IN IF new = inst THEN Outcome(FALSE, cleared, st.insts)
          ELSE IF ~is_inst(new) THEN Outcome(FALSE, cleared, st.insts)
          ELSE IF cleared[new] # None THEN Outcome(FALSE, cleared, st.insts)
          ELSE Outcome(TRUE, [cleared EXCEPT ![new] = b],
                       [st.insts EXCEPT ![b] = replace_with(@, inst, new)])

insert_before_after(st, b, inst, new) ==
  IF ~in_block(st, b, inst) \/ ~is_inst(new) \/ st.bb[new] # None
  THEN Outcome(FALSE, st.bb, st.insts)
  ELSE Outcome(TRUE, [st.bb EXCEPT ![new] = b],
               [st.insts EXCEPT ![b] = InsertAt(@, IndexOf(@, inst) + 1, new)])

\* BasicBlockInner::insert_before(&mut self, inst, new).
insert_before(st, b, inst, new) ==
  IF ~in_block(st, b, inst) THEN Outcome(FALSE, st.bb, st.insts)
  ELSE IF ~is_inst(new) THEN Outcome(FALSE, st.bb, st.insts)
  ELSE IF st.bb[new] # None THEN Outcome(FALSE, st.bb, st.insts)
  ELSE Outcome(TRUE, [st.bb EXCEPT ![new] = b],
               [st.insts EXCEPT ![b] = InsertAt(@, IndexOf(@, inst), new)])

\* BasicBlockInner::insert_after(&mut self, inst, new).
insert_after(st, b, inst, new) ==
  IF ~in_block(st, b, inst) THEN Outcome(FALSE, st.bb, st.insts)
  ELSE IF ~is_inst(new) THEN Outcome(FALSE, st.bb, st.insts)
  ELSE IF st.bb[new] # None THEN Outcome(FALSE, st.bb, st.insts)
  ELSE Outcome(TRUE, [st.bb EXCEPT ![new] = b],
               [st.insts EXCEPT ![b] = InsertAt(@, IndexOf(@, inst) + 1, new)])

succs_first(b) ==
  IF insts[b] # <<>>
  THEN LET inst == Head(insts[b])
       IN CASE KindOf(inst) = "Branch" -> targets(inst)
            [] KindOf(inst) = "Jump" -> <<target(inst)>>
            [] OTHER -> <<>>
  ELSE <<>>

\* BasicBlockInner::succs(&self): read off the back of the instruction list.
succs(b) ==
  IF insts[b] # <<>>
  THEN LET inst == insts[b][Len(insts[b])]
       IN CASE KindOf(inst) = "Branch" -> targets(inst)
            [] KindOf(inst) = "Jump" -> <<target(inst)>>
            [] OTHER -> <<>>
  ELSE <<>>

preds_derived(p, r) ==
  LET succs_of(b) ==
        IF r.insts[b] = <<>> THEN {}
        ELSE LET inst == r.insts[b][Len(r.insts[b])]
             IN CASE KindOf(inst) = "Branch" -> Range(targets(inst))
                  [] KindOf(inst) = "Jump" -> {target(inst)}
                  [] OTHER -> {}
  IN [s \in Blocks |->
        IF \E b \in Blocks : s \in succs_of(b)
        THEN <<CHOOSE b \in Blocks : s \in succs_of(b)>>
        ELSE <<>>]

\* The predecessor lists p after an edit of the instruction lists with
\* outcome r: add_inst, remove_inst, replace_inst, insert_before and
\* insert_after have no statement that touches self.preds or the preds of
\* another block.
preds_after(p, r) == p

\* A call returns or panics with outcome r; rec records a call that returned.
Finish(r, op, rec) ==
  /\ bb' = r.bb
  /\ insts' = r.insts
  /\ preds' = preds_after(preds, r)
  /\ status' = IF r.ok THEN "running" ELSE "panicked"
  /\ last' = IF r.ok THEN rec ELSE [op |-> op, ok |-> FALSE]
  /\ UNCHANGED useVars
  /\ UNCHANGED <<pool, returned, dfg, nextId, funcs, built>>

AddInst(b, inst) ==
  /\ status = "running"
  /\ Finish(add_inst(BBState, b, inst), "add_inst",
            [op |-> "add_inst", ok |-> TRUE, b |-> b, inst |-> inst,
             pre |-> insts[b]])

\* (undo: the call takes back the add_inst that returned just before it.)
RemoveInst(b, inst) ==
  /\ status = "running"
  /\ Finish(remove_inst(BBState, b, inst), "remove_inst",
            [op |-> "remove_inst", ok |-> TRUE, b |-> b, inst |-> inst,
             undo |-> (last.op = "add_inst" /\ last.ok /\ last.b = b
                       /\ last.inst = inst)])

ReplaceInst(b, inst, new) ==
  /\ status = "running"
  /\ Finish(replace_inst(BBState, b, inst, new), "replace_inst",
            [op |-> "replace_inst", ok |-> TRUE, b |-> b, inst |-> inst,
             new |-> new])

InsertBefore(b, inst, new) ==
  /\ status = "running"
  /\ Finish(insert_before(BBState, b, inst, new), "insert_before",
            [op |-> "insert_before", ok |-> TRUE, b |-> b, inst |-> inst,
             new |-> new])

InsertAfter(b, inst, new) ==
  /\ status = "running"
  /\ Finish(insert_after(BBState, b, inst, new), "insert_after",
            [op |-> "insert_after", ok |-> TRUE, b |-> b, inst |-> inst,
             new |-> new])

\* The blocks are empty and every node is free; the nodes were constructed
\* with at most one operand built by Use::new and held by its user.
InitBB ==
  /\ nodes = Nodes
  /\ nextUse \in 1..2
  /\ alive = 1..(nextUse - 1)
  /\ \E value \in Nodes, user \in Users :
       /\ useValue = [u \in alive |-> value]
       /\ useUser = [u \in alive |-> user]
       /\ uses = [n \in AllNodes |->
                    IF alive # {} /\ n = value THEN add_use(<<>>, 1) ELSE <<>>]
       /\ operands = [n \in AllNodes |->
                        IF alive # {} /\ n = user THEN <<1>> ELSE <<>>]
  /\ bb = [n \in Nodes |-> None]
  /\ insts = [b \in Blocks |-> <<>>]
  /\ status = "running"
  /\ last = [op |-> "init"]
  /\ InitExt

NextBB ==
  \/ \E b \in Blocks, inst \in Nodes : AddInst(b, inst)
  \/ \E b \in Blocks, inst \in Nodes : RemoveInst(b, inst)
  \/ \E b \in Blocks, inst \in Nodes, new \in Nodes : ReplaceInst(b, inst, new)
  \/ \E b \in Blocks, inst \in Nodes, new \in Nodes : InsertBefore(b, inst, new)
  \/ \E b \in Blocks, inst \in Nodes, new \in Nodes : InsertAfter(b, inst, new)

\* The instruction container on its own.
SpecBB == InitBB /\ [][NextBB]_vars
-----------------------------------------------------------------------------
(* structs.rs: the teardown of a basic block.  A node is kept by the owning *)
(* references to it: the caller's handle until add_inst takes it over, the  *)
(* instruction list it is in, and every Use whose value it is.              *)

\* What a teardown reads and writes.
DropState == [nodes |-> nodes, alive |-> alive, useValue |-> useValue,
              uses |-> uses, operands |-> operands]

\* The values the operands of user m point at.
operand_values(st, m) ==
  {st.useValue[u] : u \in Range(st.operands[m])} \ {None}

RECURSIVE Reach(_, _)
\* The nodes owned, directly or through operands, by the nodes of S.
Reach(st, S) ==
  LET T == S \cup UNION {operand_values(st, m) : m \in S}
  IN IF T = S THEN S ELSE Reach(st, T)

RECURSIVE ReachNoPhi(_, _)
\* The same, not looking through the operands of a phi.
ReachNoPhi(st, S) ==
  LET T == S \cup UNION {operand_values(st, m) :
                           m \in {x \in S : KindOf(x) # "Phi"}}
  IN IF T = S THEN S ELSE ReachNoPhi(st, T)

\* Use::set_value(None): the Use leaves the list of its value and points at
\* no value.
set_value_none(st, u) ==
  [st EXCEPT !.uses[st.useValue[u]] = remove_use(@, u),
             !.useValue[u] = None]

RECURSIVE replace_all_uses_with_none(_, _, _)
\* replace_all_uses_with(None): while the use list has a front,
\* set_value(None) on it.
replace_all_uses_with_none(st, self, seen) ==
  IF st.uses[self] = <<>> THEN [returns |-> TRUE, st |-> st]
  ELSE IF st \in seen THEN [returns |-> FALSE, st |-> st]
  ELSE replace_all_uses_with_none(set_value_none(st, Head(st.uses[self])),
                                  self, seen \cup {st})

RECURSIVE detach_phis(_, _, _)
\* for inst in &self.insts { if let Phi = inst.kind() { ... } }, from the
\* i-th instruction on.
detach_phis(st, l, i) ==
  IF i > Len(l) THEN [returns |-> TRUE, st |-> st]
  ELSE IF KindOf(l[i]) # "Phi" THEN detach_phis(st, l, i + 1)
  ELSE LET r == replace_all_uses_with_none(st, l[i], {})
       IN IF r.returns THEN detach_phis(r.st, l, i + 1) ELSE r

RECURSIVE drop_uses(_, _, _)
\* The operand Uses l[i..] of a node are dropped: each leaves the list of
\* the value it points at, when it points at one.
drop_uses(st, l, i) ==
  IF i > Len(l) THEN st
  ELSE LET u == l[i]
           v == st.useValue[u]
           unlisted == IF v = None THEN st.uses
                       ELSE [st.uses EXCEPT ![v] = remove_use(@, u)]
       IN drop_uses([st EXCEPT !.uses = unlisted, !.alive = @ \ {u}], l, i + 1)

RECURSIVE release(_, _)
\* Reference counting: a node that neither a root (the caller, a list) nor
\* a live Use keeps is destroyed, and its operands with it, until none is
\* left.
release(st, roots) ==
  LET unowned == {n \in st.nodes \ roots :
                    \A u \in st.alive : st.useValue[u] # n}
  IN IF unowned = {} THEN st
     ELSE LET n == CHOOSE x \in unowned : TRUE
              dropped == drop_uses(st, st.operands[n], 1)
          IN release([dropped EXCEPT !.nodes = @ \ {n}, !.operands[n] = <<>>],
                     roots)

\* What the caller and the lists of the blocks other than b keep.
Roots(held, l, b) ==
  {n \in held : bb[n] = None} \cup UNION {Range(l[c]) : c \in Blocks \ {b}}

drop_block_no_detach(st, b) ==
  [returns |-> TRUE, st |-> release(st, Roots(st.nodes, insts, b))]

\* Dropping block b: Drop for BasicBlockInner detaches the uses of every
\* phi, then the instruction list is dropped and lets go of its nodes.
drop_block(st, b) ==
  LET r == detach_phis(st, insts[b], 1)
  IN IF ~r.returns THEN r
     ELSE [returns |-> TRUE, st |-> release(r.st, Roots(st.nodes, insts, b))]

\* The last owner of block b lets go of it.
DropBlock(b) ==
  LET r == drop_block(DropState, b)
  IN /\ status = "running"
     /\ nodes' = r.st.nodes
     /\ alive' = r.st.alive
     /\ useValue' = [u \in r.st.alive |-> r.st.useValue[u]]
     /\ useUser' = [u \in r.st.alive |-> useUser[u]]
     /\ uses' = r.st.uses
     /\ operands' = r.st.operands
     /\ insts' = [insts EXCEPT ![b] = <<>>]
     /\ status' = IF r.returns THEN "done" ELSE "hung"
     /\ last' = [op |-> "drop", b |-> b, owned |-> Range(insts[b]),
                 cyclic |-> \E p \in Range(insts[b]), x \in Range(insts[b]) :
                              /\ KindOf(p) = "Phi"
                              /\ x \in operand_values(DropState, p)
                              /\ p \in Reach(DropState, {x})]
     /\ UNCHANGED <<nextUse, bb>>
     /\ UNCHANGED extVars

\* An operand of admissible IR: the value has a type, and only a phi closes
\* a cycle (every other instruction is built from operands that exist).
Admissible(value, user) ==
  /\ ty(value) # "unit"
  /\ KindOf(user) = "Phi" \/ user \notin ReachNoPhi(DropState, {value})

\* The caller has built the constants, the Binary instructions and the phis,
\* without operands yet, and empty blocks.
InitDrop ==
  /\ nodes = {n \in Insts : KindOf(n) \in {"Integer", "Binary", "Phi"}}
  /\ alive = {}
  /\ useValue = <<>>
  /\ useUser = <<>>
  /\ uses = [n \in AllNodes |-> <<>>]
  /\ operands = [n \in AllNodes |-> <<>>]
  /\ nextUse = 1
  /\ bb = [n \in Insts |-> None]
  /\ insts = [b \in Blocks |-> <<>>]
  /\ status = "running"
  /\ last = [op |-> "init"]
  /\ InitExt

NextDrop ==
  \/ \E value \in nodes, user \in nodes :
       Admissible(value, user) /\ UseNew(value, user)
  \/ \E u \in UseIds : StoreOperand(u)
  \/ \E b \in Blocks, inst \in nodes : AddInst(b, inst)
  \/ \E b \in Blocks : DropBlock(b)

\* A block is built and dropped.
SpecDrop == InitDrop /\ [][NextDrop]_vars
-----------------------------------------------------------------------------
(* values.rs: the canonicalizing pools.  A pool maps a content (an i32, a  *)
(* type) to the node built for it; a node is named by the number of nodes  *)
(* built before it, plus one.                                              *)

Ints == 0..MaxInt
Types == {"i32", "*i32", "unit"}
ArgIndexes == {0, 1}

\* What a constructor hands back: the node, and the pool and the node
\* counter it leaves behind.
Built(node, newPool, next) == [node |-> node, pool |-> newPool, next |-> next]

\* A node as values.rs builds it: Value::new(ty, kind).  A type is its base
\* name and the lengths of the arrays around it, outermost first.
NodeOf(kind, value, type, dims, node) ==
  [kind |-> kind, value |-> value, ty |-> type, dims |-> dims, node |-> node]

\* Value::ty of a built node.
TypeOf(n) == LET r == CHOOSE r \in built : r.node = n IN <<r.ty, r.dims>>

insert_evicting(p, which, key, node) == [p EXCEPT ![which] = (key :> node)]

\* HashMap::insert on one of the pools: key is bound to node, whatever it was
\* bound to.
insert(p, which, key, node) ==
  [p EXCEPT ![which] = [x \in DOMAIN @ \cup {key} |-> IF x = key THEN node ELSE @[x]]]

pooled_new_uncached(p, which, key, next) ==
  Built(next, [p EXCEPT ![which] = (key :> next) @@ @], next + 1)

\* Integer::new, ZeroInit::new, Undef::new: pool.get(&key).cloned(), or else
\* a new node that is inserted under key and returned.
pooled_new(p, which, key, next) ==
  IF key \in DOMAIN p[which] THEN Built(p[which][key], p, next)
  ELSE Built(next, insert(p, which, key, next), next + 1)

\* A constructor of values.rs returns r.
Construct(r, rec) ==
  /\ status = "running"
  /\ r.node <= MaxPooled
  /\ pool' = r.pool
  /\ nextId' = [nextId EXCEPT !.node = r.next]
  /\ last' = rec @@ [node |-> r.node]
  /\ UNCHANGED <<useVars, bbVars, status, dfg, funcs, preds>>

\* Integer::new(value).
IntegerNew(value) ==
  LET r == pooled_new(pool, "Integer", value, nextId.node)
  IN /\ Construct(r, [op |-> "Integer::new", value |-> value])
     /\ returned' = returned \cup {<<value, r.node>>}
     /\ built' = built \cup {NodeOf("Integer", value, "i32", <<>>, r.node)}

\* ZeroInit::new(ty) and Undef::new(ty): the debug_assert on a unit type
\* panics in a build with debug assertions and is absent from the others.
PooledNew(which, type) ==
  \/ /\ type # "unit"
     /\ Construct(pooled_new(pool, which, type, nextId.node),
                  [op |-> which, type |-> type])
     /\ built' = built \cup
          {NodeOf(which, 0, type, <<>>,
                  pooled_new(pool, which, type, nextId.node).node)}
     /\ UNCHANGED returned
  \/ /\ type = "unit"
     /\ \E debug_assertions \in BOOLEAN :
          IF debug_assertions
          THEN /\ status = "running"
               /\ status' = "panicked"
               /\ last' = [op |-> which, type |-> type, node |-> None]
               /\ UNCHANGED <<useVars, bbVars, extVars>>
          ELSE /\ Construct(pooled_new(pool, which, type, nextId.node),
                            [op |-> which, type |-> type])
               /\ built' = built \cup
                    {NodeOf(which, 0, type, <<>>,
                            pooled_new(pool, which, type, nextId.node).node)}
               /\ UNCHANGED returned

\* ArgRef::new(ty, index): never pooled, a new node every time.
ArgRefNew(type, index) ==
  /\ type # "unit"
  /\ Construct(Built(nextId.node, pool, nextId.node + 1),
               [op |-> "ArgRef::new", type |-> type, index |-> index])
  /\ built' = built \cup {NodeOf("ArgRef", index, type, <<>>, nextId.node)}
  /\ UNCHANGED returned

\* The element lists Aggregate::new is called with: built nodes, any number
\* up to MaxElems, none included.
BuiltElemLists ==
  UNION {[1..k -> {r.node : r \in built}] : k \in 0..MaxElems}

\* Aggregate::new(elems) with its checks.  An empty elems fails the first
\* debug_assert, or the elems[0] after it in a build without; elements of
\* different types and a unit base fail a debug_assert, and in a build
\* without debug assertions the aggregate is built with the type of elems[0]
\* as its base.  Never pooled: Value::new_with_init builds a new node, whose
\* operands are one new Use per element.
AggregateNewChecked(elems) ==
  LET k == Len(elems)
      user == nextId.node
      new == nextUse..(nextUse + k - 1)
      mismatch == \E i \in 1..(k - 1) : TypeOf(elems[i]) # TypeOf(elems[i + 1])
      panics == [op |-> "Aggregate::new", elems |-> elems, node |-> None]
  IN /\ status = "running"
     /\ \/ /\ \/ k = 0
               \/ /\ k > 0
                  /\ mismatch \/ TypeOf(elems[1]) = <<"unit", <<>>>>
                  /\ \E debug_assertions \in BOOLEAN : debug_assertions
           /\ status' = "panicked"
           /\ last' = panics
           /\ UNCHANGED <<useVars, bbVars, extVars>>
        \/ /\ k > 0
           /\ \/ ~mismatch /\ TypeOf(elems[1]) # <<"unit", <<>>>>
              \/ \E debug_assertions \in BOOLEAN : ~debug_assertions
           /\ user <= MaxPooled
           /\ nextUse + k - 1 <= MaxUses
           /\ alive' = alive \cup new
           /\ useValue' = useValue @@ [u \in new |-> elems[u - nextUse + 1]]
           /\ useUser' = useUser @@ [u \in new |-> user]
           /\ uses' = add_uses(uses, elems, nextUse, 1)
           /\ operands' = [operands EXCEPT
                             ![user] = [i \in 1..k |-> nextUse + i - 1]]
           /\ nextUse' = nextUse + k
           /\ nextId' = [nextId EXCEPT !.node = user + 1]
           /\ built' = built \cup
                {NodeOf("Aggregate", 0, TypeOf(elems[1])[1],
                        <<k>> \o TypeOf(elems[1])[2], user)}
           /\ last' = [op |-> "Aggregate::new", elems |-> elems, node |-> user]
           /\ UNCHANGED <<nodes, bbVars, status, pool, returned, dfg, funcs,
                          preds>>

InitPool ==
  /\ nodes = {}
  /\ alive = {}
  /\ useValue = <<>>
  /\ useUser = <<>>
  /\ uses = [n \in AllNodes |-> <<>>]
  /\ operands = [n \in AllNodes |-> <<>>]
  /\ nextUse = 1
  /\ bb = [n \in Nodes |-> None]
  /\ insts = [b \in Blocks |-> <<>>]
  /\ status = "running"
  /\ last = [op |-> "init"]
  /\ InitExt

NextPool ==
  \/ \E value \in Ints : IntegerNew(value)
  \/ \E which \in {"ZeroInit", "Undef"}, type \in Types : PooledNew(which, type)
  \/ \E type \in Types, index \in ArgIndexes : ArgRefNew(type, index)
  \/ \E elems \in BuiltElemLists : AggregateNewChecked(elems)

\* The constructors of values.rs on their own.
SpecPool == InitPool /\ [][NextPool]_vars
-----------------------------------------------------------------------------
(* structs.rs: the basic-block list of a function.                         *)

\* "If bbs is empty, the current function will be a declaration."
is_decl(fs, f) == fs[f] = <<>>

\* "Otherwise, the first basic block in the list will be the entry."
entry(fs, f) == Head(fs[f])

\* A block has one link: it is in the list of at most one function.
linked(fs, b) == \E f \in Funcs : b \in Range(fs[f])

FnOutcome(ok, fs) == [ok |-> ok, funcs |-> fs]

add_bb_front(fs, f, b) ==
  IF linked(fs, b) THEN FnOutcome(FALSE, fs)
  ELSE FnOutcome(TRUE, [fs EXCEPT ![f] = <<b>> \o @])

\* FunctionInner::add_bb(&mut self, bb): push_back, which panics on a block
\* whose link is in use.
add_bb(fs, f, b) ==
  IF linked(fs, b) THEN FnOutcome(FALSE, fs)
  ELSE FnOutcome(TRUE, [fs EXCEPT ![f] = Append(@, b)])

\* bbs_mut().pop_front(): the caller takes the first block back.
pop_front(fs, f) == FnOutcome(TRUE, [fs EXCEPT ![f] = IF @ = <<>> THEN @ ELSE Tail(@)])

FnFinish(r, rec) ==
  /\ status = "running"
  /\ funcs' = r.funcs
  /\ status' = IF r.ok THEN "running" ELSE "panicked"
  /\ last' = rec @@ [ok |-> r.ok]
  /\ UNCHANGED <<useVars, bbVars, pool, returned, dfg, nextId, built, preds>>

AddBb(f, b) == FnFinish(add_bb(funcs, f, b), [op |-> "add_bb", f |-> f, b |-> b])

PopFront(f) == FnFinish(pop_front(funcs, f), [op |-> "pop_front", f |-> f])

\* Function::new and Function::new_decl both leave bbs empty.
InitFn == InitPool

NextFn ==
  \/ \E f \in Funcs, b \in FnBlocks : AddBb(f, b)
  \/ \E f \in Funcs : PopFront(f)

\* The functions and their block lists.
SpecFn == InitFn /\ [][NextFn]_vars
-----------------------------------------------------------------------------
(* dfg.rs: the handle representation.  dfg.globals, dfg.values and dfg.bbs *)
(* are the three tables; an operation is computed as whether it returned   *)
(* and the tables it leaves behind either way.                             *)

ValueIds == 1..(NumGlobals + MaxValues)
BbIds == 1..MaxBbs
BinaryOps == {"add", "sub"}

DfgOutcome(ok, d) == [ok |-> ok, dfg |-> d]

\* data!(self, v) finds an entry: globals first, then the function's values.
exists(d, v) == v \in DOMAIN d.globals \/ v \in DOMAIN d.values

\* data!(self, v).
data(d, v) == IF v \in DOMAIN d.globals THEN d.globals[v] ELSE d.values[v]

\* data_mut!(self, v).used_by.insert(value) / .remove(&value).
used_by_insert(d, v, value) ==
  IF v \in DOMAIN d.globals
  THEN [d EXCEPT !.globals[v].used_by = @ \cup {value}]
  ELSE [d EXCEPT !.values[v].used_by = @ \cup {value}]

used_by_remove(d, v, value) ==
  IF v \in DOMAIN d.globals
  THEN [d EXCEPT !.globals[v].used_by = @ \ {value}]
  ELSE [d EXCEPT !.values[v].used_by = @ \ {value}]

\* HashMap::remove on a table.
table_remove(t, k) == [x \in DOMAIN t \ {k} |-> t[x]]

RECURSIVE link_values(_, _, _, _, _)
\* for v in value_uses[i..] { data_mut!(self, v).used_by.insert / remove }:
\* the expect() of data_mut! panics at the first v that has no entry.
link_values(d, value_uses, i, value, linking) ==
  IF i > Len(value_uses) THEN DfgOutcome(TRUE, d)
  ELSE IF ~exists(d, value_uses[i]) THEN DfgOutcome(FALSE, d)
  ELSE link_values(IF linking THEN used_by_insert(d, value_uses[i], value)
                   ELSE used_by_remove(d, value_uses[i], value),
                   value_uses, i + 1, value, linking)

RECURSIVE link_bbs(_, _, _, _, _)
\* for bb in bb_uses[i..] { self.bb_mut(bb).used_by.insert / remove }.
link_bbs(d, bb_uses, i, value, linking) ==
  IF i > Len(bb_uses) THEN DfgOutcome(TRUE, d)
  ELSE IF bb_uses[i] \notin DOMAIN d.bbs THEN DfgOutcome(FALSE, d)
  ELSE link_bbs([d EXCEPT !.bbs[bb_uses[i]].used_by =
                   IF linking THEN @ \cup {value} ELSE @ \ {value}],
                bb_uses, i + 1, value, linking)

\* The two loops over the operands of dt, one after the other.
link(d, dt, value, linking) ==
  LET r == link_values(d, dt.value_uses, 1, value, linking)
  IN IF ~r.ok THEN r ELSE link_bbs(r.dfg, dt.bb_uses, 1, value, linking)

\* DataFlowGraph::new_value(&mut self, data), value being next_value_id().
new_value(d, dt, value) ==
  LET r == link(d, dt, value, TRUE)
  IN IF ~r.ok THEN r
     ELSE DfgOutcome(TRUE, [r.dfg EXCEPT !.values = (value :> dt) @@ @])

\* DataFlowGraph::replace_value_with(&mut self, value, data).
replace_value_with(d, value, dt) ==
  IF value \notin DOMAIN d.values THEN DfgOutcome(FALSE, d)
  ELSE LET old == d.values[value]
           removed == [d EXCEPT !.values = table_remove(@, value)]
           r == link(removed, old, value, FALSE)
       IN IF ~r.ok THEN r
          ELSE LET q == link(r.dfg, dt, value, TRUE)
               IN IF ~q.ok THEN q
                  ELSE DfgOutcome(TRUE, [q.dfg EXCEPT !.values = (value :> dt) @@ @])

\* DataFlowGraph::remove_value(&mut self, value): the entry is taken out of
\* the table before the assert! on its used_by set.
remove_value(d, value) ==
  IF value \notin DOMAIN d.values THEN DfgOutcome(FALSE, d)
  ELSE LET dt == d.values[value]
           removed == [d EXCEPT !.values = table_remove(@, value)]
       IN IF dt.used_by # {} THEN DfgOutcome(FALSE, removed)
          ELSE link(removed, dt, value, FALSE)

\* DataFlowGraph::new_bb(&mut self, data), id being next_bb_id().
new_bb(d, id) == DfgOutcome(TRUE, [d EXCEPT !.bbs = (id :> [used_by |-> {}]) @@ @])

\* DataFlowGraph::remove_bb(&mut self, bb).
remove_bb(d, id) ==
  IF id \notin DOMAIN d.bbs THEN DfgOutcome(FALSE, d)
  ELSE DfgOutcome(TRUE, [d EXCEPT !.bbs = table_remove(@, id)])

RECURSIVE value_eq(_, _, _, _)
RECURSIVE data_eq(_, _, _, _)
RECURSIVE uses_eq(_, _, _, _, _)

\* for (lu, ru) in lhs.value_uses().zip(rhs.value_uses()): the first pair
\* that is not equal (or whose comparison does not return) ends the loop.
uses_eq(d, lu, ru, i, stack) ==
  IF i > Len(lu) \/ i > Len(ru) THEN "true"
  ELSE LET e == value_eq(d, lu[i], ru[i], stack)
       IN IF e = "true" THEN uses_eq(d, lu, ru, i + 1, stack) ELSE e

data_eq_any_op(d, l, r, stack) ==
  IF l.ty # r.ty THEN "false"
  ELSE IF l.kind # r.kind THEN "false"
  ELSE IF l.kind = "Integer" /\ l.value # r.value THEN "false"
  ELSE IF l.kind = "Jump" /\ l.bb_uses # r.bb_uses THEN "false"
  ELSE IF l.kind = "Call" /\ l.value # r.value THEN "false"
  ELSE uses_eq(d, l.value_uses, r.value_uses, 1, stack)

\* DataFlowGraph::data_eq(&self, lhs, rhs): the types, then the payload of
\* the kind, then the operands pairwise.
data_eq(d, l, r, stack) ==
  IF l.ty # r.ty THEN "false"
  ELSE IF l.kind # r.kind THEN "false"
  ELSE IF l.kind = "Integer" /\ l.value # r.value THEN "false"
  ELSE IF l.kind = "Binary" /\ l.op # r.op THEN "false"
  ELSE IF l.kind = "Jump" /\ l.bb_uses # r.bb_uses THEN "false"
  ELSE IF l.kind = "Call" /\ l.value # r.value THEN "false"
  ELSE uses_eq(d, l.value_uses, r.value_uses, 1, stack)

\* DataFlowGraph::value_eq(&self, lhs, rhs): "true" or "false" when it
\* returns, "panic" when a handle has no entry, "overflow" when the
\* recursion comes back to a pair it is in the middle of comparing (stack)
\* and so never ends.
value_eq(d, lhs, rhs, stack) ==
  IF ~exists(d, lhs) \/ ~exists(d, rhs) THEN "panic"
  ELSE IF <<lhs, rhs>> \in stack THEN "overflow"
  ELSE data_eq(d, data(d, lhs), data(d, rhs), stack \cup {<<lhs, rhs>>})

\* The argument lists of a Call: any values, any number up to MaxElems.
ArgLists == UNION {[1..k -> ValueIds] : k \in 0..MaxElems}

\* The value data handed to new_value and replace_value_with.
DataInputs ==
  {IntegerData(i) : i \in Ints}
    \cup {BinaryData(op, type, lhs, rhs) :
            op \in BinaryOps, type \in {"i32", "*i32"},
            lhs \in ValueIds, rhs \in ValueIds}
    \cup {JumpData(to) : to \in BbIds}
    \cup {CallData(callee, "i32", args) : callee \in Funcs, args \in ArgLists}

\* A call on the data flow graph returns or panics with outcome r.
DfgFinish(r, rec) ==
  /\ dfg' = r.dfg
  /\ status' = IF r.ok THEN "running" ELSE "panicked"
  /\ last' = rec @@ [ok |-> r.ok]
  /\ UNCHANGED <<useVars, bbVars, pool, returned, funcs, built, preds>>

NewValue(dt) ==
  /\ status = "running"
  /\ nextId.value <= NumGlobals + MaxValues
  /\ nextId' = [nextId EXCEPT !.value = @ + 1]
  /\ DfgFinish(new_value(dfg, dt, nextId.value),
               [op |-> "new_value", value |-> nextId.value])

ReplaceValueWith(value, dt) ==
  /\ status = "running"
  /\ DfgFinish(replace_value_with(dfg, value, dt),
               [op |-> "replace_value_with", value |-> value])
  /\ UNCHANGED nextId

RemoveValue(value) ==
  /\ status = "running"
  /\ DfgFinish(remove_value(dfg, value),
               [op |-> "remove_value", value |-> value])
  /\ UNCHANGED nextId

NewBb ==
  /\ status = "running"
  /\ nextId.bb <= MaxBbs
  /\ nextId' = [nextId EXCEPT !.bb = @ + 1]
  /\ DfgFinish(new_bb(dfg, nextId.bb), [op |-> "new_bb", value |-> nextId.bb])

RemoveBb(id) ==
  /\ status = "running"
  /\ DfgFinish(remove_bb(dfg, id), [op |-> "remove_bb", value |-> id])
  /\ UNCHANGED nextId

\* value_eq(lhs, rhs): a query; a comparison that panics or overflows the
\* stack ends the program.
ValueEq(lhs, rhs) ==
  LET e == value_eq(dfg, lhs, rhs, {})
  IN /\ status = "running"
     /\ status' = IF e \in {"true", "false"} THEN "running" ELSE "panicked"
     /\ last' = [op |-> "value_eq", lhs |-> lhs, rhs |-> rhs, result |-> e]
     /\ UNCHANGED <<useVars, bbVars, extVars>>

\* The value data the editing of a graph is explored with.
EditInputs ==
  {dt \in DataInputs : dt.value = 0 /\ dt.op \in {"", "add"} /\ dt.ty # "*i32"}

InitDfg == InitPool

NextDfg ==
  \/ \E dt \in EditInputs : NewValue(dt)
  \/ \E value \in ValueIds, dt \in EditInputs : ReplaceValueWith(value, dt)
  \/ \E value \in ValueIds : RemoveValue(value)
  \/ NewBb
  \/ \E id \in BbIds : RemoveBb(id)

\* The editing operations of the data flow graph.
SpecDfg == InitDfg /\ [][NextDfg]_vars

NextEq ==
  \/ \E dt \in DataInputs : NewValue(dt)
  \/ \E lhs \in ValueIds, rhs \in ValueIds : ValueEq(lhs, rhs)

\* Structural equality over the graphs new_value builds.
SpecEq == InitDfg /\ [][NextEq]_vars
-----------------------------------------------------------------------------
(* The def-use protocol (SpecUse).                                         *)

\* x comes before y in s.
Before(s, x, y) == \E i, j \in 1..Len(s) : i < j /\ s[i] = x /\ s[j] = y

\* The Uses pointing at value n.
PointingAt(n) == {u \in alive : useValue[u] = n}

\* C1: when v.replace_all_uses_with(v2) returns for distinct v and v2, the
\* use list of v is empty, every Use that pointed at v points at v2 (and is
\* on v2's list), and every user's operand sequence is the same sequence of
\* Uses, with the same users, as before the call.
C1_ReplaceAllUses ==
  [][(last'.op = "replace_all_uses_with" /\ last'.self # last'.value) =>
       /\ status' = "running"
       /\ uses'[last'.self] = <<>>
       /\ \A u \in PointingAt(last'.self) :
            /\ u \in alive'
            /\ useValue'[u] = last'.value
            /\ u \in Range(uses'[last'.value])
       /\ operands' = operands
       /\ useUser' = useUser]_vars

\* A call that moved the two operands of one user from v to v2.
C1_Witness ==
  /\ last.op = "replace_all_uses_with" /\ status = "running"
  /\ last.self # last.value /\ last.n >= 2
  /\ \E w \in AllNodes :
       /\ Len(operands[w]) >= 2
       /\ \A i \in 1..Len(operands[w]) : useValue[operands[w][i]] = last.value

\* C2: in every reachable state every live Use is exactly once on the use
\* list of the value it points at and on no other value's list, and no use
\* list holds a Use that was destroyed.
C2_UseListed ==
  /\ \A u \in alive :
       /\ Count(uses[useValue[u]], u) = 1
       /\ \A n \in AllNodes \ {useValue[u]} : u \notin Range(uses[n])
  /\ \A n \in AllNodes : Range(uses[n]) \subseteq alive

\* One Use was destroyed, and two live Uses share a list that a set_value or
\* a replace_all_uses_with has put out of creation order.
C2_Witness ==
  /\ Cardinality(alive) = 2 /\ nextUse > MaxUses
  /\ \E n \in AllNodes : Len(uses[n]) = 2 /\ uses[n][1] > uses[n][2]

\* C3 as stated: as soon as Use::new(v, w) returns, the new Use is in w's
\* operand list and in no other user's, and is once on v's use list.
C3_Original ==
  last.op = "Use::new" =>
    /\ Count(operands[last.user], last.u) = 1
    /\ \A n \in AllNodes \ {last.user} : last.u \notin Range(operands[n])
    /\ Count(uses[last.value], last.u) = 1

\* C3, amended: when Use::new(v, w) (or the clone of such a Use) returns, the
\* new Use is exactly once on v's use list and names w as its user, but it is
\* owned by the caller and in no operand list; once the caller has stored it,
\* it is exactly once in w's operand list and in no other user's; and when
\* Aggregate::new(elems) returns, slot i of the aggregate's operand list is a
\* Use of elems[i] that is once on that element's use list and in no other
\* user's operand list.
C3_UseNew ==
  /\ last.op \in {"Use::new", "Use::clone"} =>
       /\ last.u \in alive
       /\ Count(uses[useValue[last.u]], last.u) = 1
       /\ \A n \in AllNodes : last.u \notin Range(operands[n])
  /\ last.op = "Use::new" =>
       useValue[last.u] = last.value /\ useUser[last.u] = last.user
  /\ last.op = "store" =>
       /\ Count(operands[useUser[last.u]], last.u) = 1
       /\ \A n \in AllNodes \ {useUser[last.u]} : last.u \notin Range(operands[n])
       /\ Count(uses[useValue[last.u]], last.u) = 1
  /\ last.op = "Aggregate::new" =>
       /\ Len(operands[last.u]) = Len(last.elems)
       /\ \A i \in 1..Len(last.elems) :
            LET u == operands[last.u][i]
            IN /\ u \in alive
               /\ useValue[u] = last.elems[i] /\ useUser[u] = last.u
               /\ Count(uses[last.elems[i]], u) = 1
               /\ Count(operands[last.u], u) = 1
               /\ \A n \in AllNodes \ {last.u} : u \notin Range(operands[n])

\* Use::new has returned a Use of a value that already had one, to a user
\* with an operand already: the new Use is the caller's.
C3_Witness ==
  /\ last.op = "Use::new"
  /\ last.u \in Held
  /\ Len(uses[last.value]) >= 2
  /\ operands[last.user] # <<>>

\* C4 as stated: after u.set_value(n) on a Use pointing at o, u is absent
\* from o's list and once on n's, its user and the operand lists are as
\* before, and every other entry of every use list is as before.
C4_Original ==
  [][last'.op = "set_value" =>
       LET u == last'.u
           o == useValue[u]
           n == last'.value
       IN /\ u \notin Range(uses'[o])
          /\ Count(uses'[n], u) = 1
          /\ useUser' = useUser /\ operands' = operands
          /\ \A x \in AllNodes : Without(uses'[x], u) = Without(uses[x], u)]_vars

\* C4, amended: after u.set_value(n) on a Use pointing at o, u points at n
\* and is exactly once on n's list and on no other list; it is absent from
\* o's list when n is another value than o, and moved to the back of o's list
\* when n is o itself; its user and the operand lists are as before, and
\* every other entry of every use list is as before.
C4_SetValue ==
  [][last'.op = "set_value" =>
       LET u == last'.u
           o == useValue[u]
           n == last'.value
       IN /\ useValue'[u] = n
          /\ Count(uses'[n], u) = 1
          /\ \A x \in AllNodes \ {n} : u \notin Range(uses'[x])
          /\ n = o => uses'[o] = Append(Without(uses[o], u), u)
          /\ useUser' = useUser /\ operands' = operands
          /\ \A x \in AllNodes : Without(uses'[x], u) = Without(uses[x], u)]_vars

\* A set_value has moved a Use to a value that had a Use already, away from
\* a value that keeps one, while a third value has a Use too.
C4_Witness ==
  /\ last.op = "set_value"
  /\ Len(uses[last.value]) >= 2
  /\ uses[last.value][Len(uses[last.value])] = last.u
  /\ \E o \in AllNodes \ {last.value} : uses[o] # <<>>

\* C5: destroying a Use takes exactly that Use off the use list of the value
\* it points at, as part of the drop; the other entries of that list keep
\* their relative order and every other use list is as before.
C5_DropUse ==
  [][last'.op = "drop" =>
       LET u == last'.u
           v == useValue[u]
       IN /\ u \notin alive'
          /\ \A n \in AllNodes : u \notin Range(uses'[n])
          /\ Range(uses'[v]) = Range(uses[v]) \ {u}
          /\ Len(uses'[v]) = Len(uses[v]) - 1
          /\ \A x, y \in Range(uses'[v]) :
               Before(uses'[v], x, y) <=> Before(uses[v], x, y)
          /\ \A n \in AllNodes \ {v} : uses'[n] = uses[n]]_vars

\* The Use in the middle of a list of three was destroyed.
C5_Witness ==
  /\ last.op = "drop"
  /\ Len(uses[last.value]) = 2
  /\ uses[last.value][1] < last.u /\ last.u < uses[last.value][2]

\* C22: a replace_all_uses_with(value) on self, with value another node than
\* self, leaves value's use list as it was, followed by the Uses of self's
\* list in the order they had there.
C22_Order ==
  [][\A self \in UseNodes, value \in UseNodes :
       (ReplaceAllUsesWith(self, value) /\ self # value) =>
         uses'[value] = uses[value] \o uses[self]]_vars

\* replace_all_uses_with has moved two Uses behind one that was there, and
\* the two had not been created in the order they had in the list.
C22_Witness ==
  /\ last.op = "replace_all_uses_with"
  /\ last.self # last.value
  /\ last.n = 2
  /\ Len(uses[last.value]) = 3
  /\ uses[last.value][2] > uses[last.value][3]
-----------------------------------------------------------------------------
(* The instruction container (SpecBB).                                     *)

\* The number of instruction-list entries, over all blocks, that are inst.
Linked(inst) == Cardinality({<<b, i>> \in Blocks \X (1..NumNodes) :
                               i <= Len(insts[b]) /\ insts[b][i] = inst})

\* C6: after any sequence of add_inst, remove_inst, replace_inst,
\* insert_before and insert_after calls that all returned, every instruction
\* is at most once in at most one block's list, its back-pointer is block b
\* exactly when it is in b's list, and is None exactly when it is in no list.
C6_OneBlock ==
  status = "running" =>
    \A inst \in Nodes :
      /\ Linked(inst) <= 1
      /\ \A b \in Blocks : bb[inst] = b <=> inst \in Range(insts[b])
      /\ bb[inst] = None <=> Linked(inst) = 0

\* Both blocks hold an instruction after a replace_inst.
C6_Witness ==
  /\ status = "running"
  /\ last.op = "replace_inst"
  /\ \A b \in Blocks : insts[b] # <<>>

\* C7: b.add_inst(i) on a free instruction i followed at once by
\* b.remove_inst(i) leaves i with no back-pointer and b's list as it was
\* before the add_inst, and add_inst(i) is again accepted by every block.
C7_AddRemove ==
  [][(/\ last.op = "add_inst" /\ last.ok
      /\ last'.op = "remove_inst" /\ last'.ok
      /\ last'.b = last.b /\ last'.inst = last.inst) =>
       /\ insts'[last.b] = last.pre
       /\ \A b \in Blocks \ {last.b} : insts'[b] = insts[b]
       /\ bb'[last.inst] = None
       /\ \A b \in Blocks :
            add_inst([bb |-> bb', insts |-> insts'], b, last.inst).ok]_vars

\* An instruction was added behind another one and removed again.
C7_Witness ==
  /\ last.op = "remove_inst" /\ last.ok /\ last.undo
  /\ insts[last.b] # <<>>

\* C8: replace_inst(old, new) that returns, on a member old of block b and a
\* free instruction new, puts new at the index old had, leaves every other
\* entry of b and every other block as it was, clears old's back-pointer and
\* sets new's to b, and changes no use list and no Use: whatever pointed at
\* old still does.
C8_ReplaceInst ==
  [][(last'.op = "replace_inst" /\ last'.ok) =>
       LET b == last'.b
           old == last'.inst
           new == last'.new
           i == IndexOf(insts[b], old)
       IN /\ in_block(BBState, b, old) /\ is_inst(new) /\ bb[new] = None
          /\ Len(insts'[b]) = Len(insts[b])
          /\ insts'[b][i] = new
          /\ \A j \in 1..Len(insts[b]) : j # i => insts'[b][j] = insts[b][j]
          /\ \A c \in Blocks \ {b} : insts'[c] = insts[c]
          /\ bb'[old] = None /\ bb'[new] = b
          /\ \A n \in Nodes \ {old, new} : bb'[n] = bb[n]
          /\ uses' = uses /\ useValue' = useValue
          /\ {u \in alive' : useValue'[u] = old} = PointingAt(old)]_vars

\* An instruction that has a Use was replaced, and not at the back of a list.
C8_Witness ==
  /\ last.op = "replace_inst" /\ last.ok
  /\ uses[last.inst] # <<>>
  /\ Len(insts[last.b]) >= 2
  /\ insts[last.b][Len(insts[last.b])] # last.new

\* C9: insert_before(anchor, new) / insert_after(anchor, new) on block b
\* returns only when anchor's back-pointer is b and new is an instruction in
\* no block, and panics otherwise; when it returns, new is right before /
\* right after anchor, the instructions that were in the list are in the
\* order they had, the list is one longer and new's back-pointer is b.
C9_Insert ==
  [][last'.op \in {"insert_before", "insert_after"} =>
       IF last'.ok
       THEN LET b == last'.b
                anchor == last'.inst
                new == last'.new
            IN /\ status' = "running"
               /\ bb[anchor] = b /\ is_inst(new) /\ bb[new] = None
               /\ Len(insts'[b]) = Len(insts[b]) + 1
               /\ Without(insts'[b], new) = insts[b]
               /\ Count(insts'[b], new) = 1
               /\ IndexOf(insts'[b], new) = IndexOf(insts'[b], anchor)
                    + (IF last'.op = "insert_before" THEN -1 ELSE 1)
               /\ bb'[new] = b
               /\ \A n \in Nodes \ {new} : bb'[n] = bb[n]
               /\ \A c \in Blocks \ {b} : insts'[c] = insts[c]
       ELSE status' = "panicked"]_vars

\* An instruction was inserted between two others.
C9_Witness ==
  /\ last.op \in {"insert_before", "insert_after"} /\ last.ok
  /\ Len(insts[last.b]) = 3
  /\ insts[last.b][2] = last.new

\* C10: the successors of a block are read off its last instruction alone:
\* <<B1, B2>> for Branch(true_bb = B1, false_bb = B2), <<B2>> for
\* Jump(target = B2), and none when the list is empty or ends in another
\* kind of instruction, whatever the earlier instructions are.
C10_Succs ==
  \A b \in Blocks :
    IF insts[b] = <<>> THEN succs(b) = <<>>
    ELSE LET t == insts[b][Len(insts[b])]
         IN /\ KindOf(t) = "Branch" => succs(b) = <<true_bb(t), false_bb(t)>>
            /\ KindOf(t) = "Jump" => succs(b) = <<target(t)>>
            /\ KindOf(t) \notin {"Branch", "Jump"} => succs(b) = <<>>

\* After an edit, a block starts with a Branch and ends in a Binary, and
\* another block ends in a Jump behind another instruction.
C10_Witness ==
  /\ last.op \in {"replace_inst", "insert_before", "insert_after", "remove_inst"}
  /\ status = "running"
  /\ \E b \in Blocks :
       /\ Len(insts[b]) >= 2
       /\ KindOf(insts[b][1]) \in {"Branch", "Jump"}
       /\ KindOf(insts[b][Len(insts[b])]) = "Binary"
       /\ succs(b) = <<>>

\* C11: b.add_inst(inst) panics when inst is no instruction or has a
\* back-pointer already (to b or to another block), and then b's list, the
\* back-pointers and every other block are as before; otherwise it returns,
\* inst is the last element of b's list, its back-pointer is b, and nothing
\* else has changed.
C11_AddInst ==
  [][\A b \in Blocks, inst \in Nodes :
       AddInst(b, inst) =>
         IF ~is_inst(inst) \/ bb[inst] # None
         THEN status' = "panicked" /\ insts' = insts /\ bb' = bb
         ELSE /\ status' = "running"
              /\ insts'[b] = Append(insts[b], inst)
              /\ bb'[inst] = b
              /\ \A c \in Blocks \ {b} : insts'[c] = insts[c]
              /\ \A n \in Nodes \ {inst} : bb'[n] = bb[n]]_vars

\* An add_inst has panicked while every block held an instruction.
C11_Witness ==
  /\ last.op = "add_inst" /\ ~last.ok
  /\ status = "panicked"
  /\ \A b \in Blocks : insts[b] # <<>>

\* C24: add_inst, remove_inst, replace_inst, insert_before and insert_after
\* leave the predecessor list of every block as it was, whether the call
\* changes the successors of its block or not.
C24_PredsKept ==
  [][last'.op \in {"add_inst", "remove_inst", "replace_inst",
                   "insert_before", "insert_after"} => preds' = preds]_vars

\* add_inst has put a Jump or a Branch at the end of a block, whose
\* successors are no longer what they were, and the block is not in the
\* predecessor list of one of its successors.
C24_Witness ==
  /\ last.op = "add_inst" /\ last.ok
  /\ KindOf(last.inst) \in {"Jump", "Branch"}
  /\ last.pre # <<>>
  /\ KindOf(last.pre[Len(last.pre)]) = "Binary"
  /\ \E s \in Range(succs(last.b)) : last.b \notin Range(preds[s])
-----------------------------------------------------------------------------
(* The canonicalizing pools (SpecPool).                                    *)

\* C12: of all the Integer::new calls so far, two with the same integer got
\* the same node and two with different integers got different nodes,
\* whatever was constructed in between.
C12_IntegerPool ==
  \A p, q \in returned : (p[1] = q[1]) <=> (p[2] = q[2])

\* Integer::new has returned the node of an earlier call again, after other
\* nodes were built, and another integer has a node of its own.
C12_Witness ==
  /\ last.op = "Integer::new"
  /\ last.node + 1 < nextId.node
  /\ \E q \in returned : q[1] # last.value

\* C21: no constructor takes an entry out of a pool or binds its key to
\* another node; of all the Integer::new, ZeroInit::new and Undef::new calls
\* so far, two of the same kind with the same content got the same node, and
\* ZeroInit::new and Undef::new never got the same node; and every
\* ArgRef::new and Aggregate::new that returns, returns a node that no
\* constructor has returned before.
C21_Pools ==
  [][/\ \A which \in DOMAIN pool : \A key \in DOMAIN pool[which] :
          /\ key \in DOMAIN pool'[which]
          /\ pool'[which][key] = pool[which][key]
     /\ \A r, q \in built' :
          /\ (/\ r.kind \in {"Integer", "ZeroInit", "Undef"}
              /\ r.kind = q.kind /\ r.value = q.value /\ r.ty = q.ty) =>
               r.node = q.node
          /\ (r.kind = "ZeroInit" /\ q.kind = "Undef") => r.node # q.node
     /\ \A type \in Types, index \in ArgIndexes :
          ArgRefNew(type, index) => last'.node \notin {r.node : r \in built}
     /\ \A elems \in BuiltElemLists :
          (AggregateNewChecked(elems) /\ status' = "running") =>
            last'.node \notin {r.node : r \in built}]_vars

\* ZeroInit::new has returned the node of an earlier call again, after
\* Undef::new was called with the same type and after a node that is not
\* pooled was built.
C21_Witness ==
  /\ last.op = "ZeroInit"
  /\ last.node + 1 < nextId.node
  /\ \E r \in built : r.kind = "Undef" /\ r.ty = last.type
  /\ \E r \in built : r.kind \in {"ArgRef", "Aggregate"}
-----------------------------------------------------------------------------
(* The teardown of a block (SpecDrop).                                     *)

\* C15: dropping a block comes to an end, also when the block holds a phi
\* whose incoming value is an instruction of the block that uses the phi in
\* turn; and afterwards every instruction the block held is either
\* destroyed or still owned, directly or through operands, by what the
\* caller (a node, or a Use not handed to its user yet) or another block
\* holds: no node is kept only by the cycle.
C15_DropBlock ==
  last.op = "drop" =>
    /\ status = "done"
    /\ \A n \in last.owned \cap nodes :
         n \in Reach(DropState, Roots(nodes, insts, last.b)
                                  \cup ({useValue[u] : u \in Held} \ {None}))

\* A block with a phi and an instruction that were operands of each other
\* was dropped, and both are destroyed.
C15_Witness ==
  /\ last.op = "drop" /\ last.cyclic
  /\ Cardinality(last.owned) >= 2
  /\ last.owned \cap nodes = {}
-----------------------------------------------------------------------------
(* The functions (SpecFn).                                                 *)

\* C16: a function with an empty block list is a declaration; add_bb(b) on
\* it makes it a definition whose entry is b; and add_bb on a definition
\* appends at the end, so the entry stays the block it was.
C16_AddBb ==
  [][(last'.op = "add_bb" /\ last'.ok) =>
       LET f == last'.f
           b == last'.b
       IN /\ ~is_decl(funcs', f)
          /\ is_decl(funcs, f) => entry(funcs', f) = b
          /\ ~is_decl(funcs, f) => entry(funcs', f) = entry(funcs, f)
          /\ funcs'[f] = Append(funcs[f], b)
          /\ \A g \in Funcs \ {f} : funcs'[g] = funcs[g]]_vars

\* A second block was added to a function after its first entry had been
\* taken back.
C16_Witness ==
  /\ last.op = "add_bb" /\ last.ok
  /\ Len(funcs[last.f]) = 2
  /\ entry(funcs, last.f) # last.b
  /\ \E b \in FnBlocks : ~linked(funcs, b)
-----------------------------------------------------------------------------
(* The handle representation (SpecDfg, SpecEq).                            *)

\* The handles that have an entry, in the global or the function's table.
Stored == DOMAIN dfg.globals \cup DOMAIN dfg.values

\* C13 as stated: remove_value(v) on a stored value whose used_by set is not
\* empty panics and leaves the tables as they were: v still has its entry,
\* and every entry and every used_by set is as before.
C13_Refused ==
  [][(/\ last'.op = "remove_value"
      /\ last'.value \in DOMAIN dfg.values
      /\ dfg.values[last'.value].used_by # {}) =>
       /\ status' = "panicked"
       /\ last'.value \in DOMAIN dfg'.values
       /\ dfg' = dfg]_vars

\* C14: value_eq on two stored Binary values returns true when their types
\* and their operators are equal and value_eq returns true on their operands
\* pair by pair, and returns false whenever their operators differ.
C14_ValueEq ==
  (/\ last.op = "value_eq"
   /\ last.lhs \in Stored /\ last.rhs \in Stored
   /\ data(dfg, last.lhs).kind = "Binary"
   /\ data(dfg, last.rhs).kind = "Binary") =>
    LET l == data(dfg, last.lhs)
        r == data(dfg, last.rhs)
    IN /\ (/\ l.ty = r.ty /\ l.op = r.op
           /\ \A i \in 1..2 :
                value_eq(dfg, l.value_uses[i], r.value_uses[i], {}) = "true")
            => last.result = "true"
       /\ l.op # r.op => last.result = "false"

\* Two Binary values built one after the other, with the same operator and
\* with operands that are different handles of equal constants, compared
\* equal.
C14_Witness ==
  /\ last.op = "value_eq" /\ last.result = "true"
  /\ last.lhs # last.rhs
  /\ last.lhs \in DOMAIN dfg.values /\ last.rhs \in DOMAIN dfg.values
  /\ dfg.values[last.lhs].kind = "Binary"
  /\ dfg.values[last.rhs].kind = "Binary"
  /\ \A i \in 1..2 :
       dfg.values[last.lhs].value_uses[i] # dfg.values[last.rhs].value_uses[i]

\* C23 as stated: whenever value_eq has returned on two stored values, it
\* returned true if the two are the same value, it returns the same with
\* the two exchanged, it returned false if their types or their kinds
\* differ, and if it returned true on two values of the same kind, the two
\* have the same number of operands and value_eq returns true on their
\* operands pair by pair.
C23_Equivalence ==
  (/\ last.op = "value_eq"
   /\ last.lhs \in Stored /\ last.rhs \in Stored) =>
    LET l == data(dfg, last.lhs)
        r == data(dfg, last.rhs)
    IN /\ last.lhs = last.rhs => last.result = "true"
       /\ value_eq(dfg, last.rhs, last.lhs, {}) = last.result
       /\ (l.ty # r.ty \/ l.kind # r.kind) => last.result = "false"
       /\ (l.kind = r.kind /\ last.result = "true") =>
            /\ Len(l.value_uses) = Len(r.value_uses)
            /\ \A i \in 1..Len(l.value_uses) :
                 value_eq(dfg, l.value_uses[i], r.value_uses[i], {}) = "true"

\* C18 as stated: whenever the calls so far have returned, for all stored
\* values u and v, u is in v's used_by set exactly when v is an operand of
\* u, and for every stored block b, u is in b's used_by set exactly when b
\* is a block operand of u.
C18_ChainsAgree ==
  status = "running" =>
    /\ \A u \in Stored, v \in Stored :
         u \in data(dfg, v).used_by <=> v \in Range(data(dfg, u).value_uses)
    /\ \A u \in Stored, b \in DOMAIN dfg.bbs :
         u \in dfg.bbs[b].used_by <=> b \in Range(data(dfg, u).bb_uses)

\* C19 as stated: whenever the calls so far have returned, every value
\* handle and every block handle that is an operand of a stored value has an
\* entry in the tables.
C19_NoDangling ==
  status = "running" =>
    \A u \in Stored :
      /\ \A v \in Range(data(dfg, u).value_uses) : exists(dfg, v)
      /\ \A b \in Range(data(dfg, u).bb_uses) : b \in DOMAIN dfg.bbs
-----------------------------------------------------------------------------
(* Claims the code does not meet.                                          *)

\* C17 as stated: replace_inst(old, new) on a member old of block b with a
\* new that is no instruction, or is in a block already, or is old itself,
\* panics and leaves old's back-pointer naming b, the instruction lists and
\* new's back-pointer as they were.
C17_Atomic ==
  [][\A b \in Blocks, old \in Nodes, new \in Nodes :
       (/\ ReplaceInst(b, old, new)
        /\ in_block(BBState, b, old)
        /\ (new = old \/ ~is_inst(new) \/ bb[new] # None)) =>
         /\ status' = "panicked"
         /\ bb'[old] = b
         /\ insts' = insts
         /\ bb'[new] = bb[new]]_vars

\* C20 as stated: v.replace_all_uses_with(w) comes to an end for every w,
\* w = v included: no call leaves the program in its loop for ever.
C20_Terminates == status # "hung"
====
